---- MODULE Spec2Model ----
(***************************************************************************)
(* SSD1309 OLED driver (src/ssd1309.py, class SSD1309_SPI) as a state      *)
(* machine.  Every driver method is a straight-line program of primitive   *)
(* steps (pin writes, sleeps, SPI writes, framebuffer updates); the        *)
(* methods are the operators write_cmd, write_data, reset, init_display,   *)
(* show, contrast, invert, poweroff, poweron, fill and pixel below, and    *)
(* the actions execute them one primitive step at a time.  The trace of    *)
(* the operation in progress (or of the last one) is kept in `wire`.       *)
(***************************************************************************)
EXTENDS Integers, Sequences, FiniteSets, TLC

\* ------------------------------------------------------------------------
\* Command constants (src/ssd1309.py:104-150), decimal with the hex beside.
DISPLAY_OFF == 174
\* 0xAE
DISPLAY_ON == 175
\* 0xAF
SET_DISPLAY_ALL_ON_RESUME == 164
\* 0xA4
SET_NORMAL_DISPLAY == 166
\* 0xA6
SET_INVERTED_DISPLAY == 167
\* 0xA7
DEACTIVATE_SCROLL == 46
\* 0x2E
SET_MEMORY_MODE == 32
\* 0x20
SET_COLUMN_ADDR == 33
\* 0x21
SET_PAGE_ADDR == 34
\* 0x22
SET_START_LINE == 64
\* 0x40
SET_SEG_REMAP == 160

SET_SEG_REMAP_INV == 161
\* 0xA1
SET_MULTIPLEX_RATIO == 168
\* 0xA8
SET_COM_SCAN_INC == 192

SET_COM_SCAN_DEC == 200
\* 0xC8
SET_DISPLAY_OFFSET == 211
\* 0xD3
SET_COM_PINS == 218
\* 0xDA
SET_CLOCK_DIV == 213
\* 0xD5
SET_PRECHARGE == 217
\* 0xD9
SET_VCOMH_DESELECT == 219
\* 0xDB
SET_CONTRAST == 129
\* 0x81
SET_COMMAND_LOCK == 253
\* 0xFD
ADDR_MODE_HORIZONTAL == 0
\* 0x00
DEFAULT_CONTRAST == 207
\* 0xCF
DEFAULT_PRECHARGE == 241
\* 0xF1
DEFAULT_VCOMH == 48
\* 0x30
DEFAULT_CLOCK_DIV == 128
\* 0x80
DEFAULT_COM_PINS == 18
\* 0x12
UNLOCK == 18
\* 0x12, the literal parameter of the command-lock opcode
CHARGE_PUMP == 141
\* 0x8D, the SSD1306 charge-pump opcode the driver must not send

\* ------------------------------------------------------------------------
\* Bounds and input sets of the model.
MaxJitter == 1
\* a sleep_ms(n) lasts n .. n+MaxJitter milliseconds

\* How many show() calls may follow the first on one trace.
MaxRepeats == 1

Widths == {64, 127, 128, 129}
Heights == {0, 16, 32, 48, 64, 128}
Levels == {-5, 0, 128, 141, 255, 300}
Flags == {TRUE, FALSE}
Colors == {0, 1}

\* An optional argument: None, or Some(v) when a value is given.
None == << >>
Some(v) == <<v>>

\* The color argument of pixel(x, y, color=None)
PixelColors == {None} \cup {Some(c) : c \in Colors}
Points == {<<0, 0>>, <<127, 31>>, <<5, 60>>}

Pins == {"cs", "dc", "rst"}

VARIABLES
    phase,      \* "unconstructed" | "ready": whether a driver object exists
    op,         \* the operation in progress, or the last one ("" at start)
    arg,        \* its arguments
    pc,         \* index of the next primitive step of Code
    status,     \* "idle" | "running" | "returned" | "raised"
    err,        \* "" | "ValueError" | "OSError" | "TypeError"
    width,      \* self.width
    height,     \* self.height
    pages,      \* self.pages
    buffer,     \* self.buffer, a sequence of bytes
    lvl,        \* output level of every configured control pin
    wire,       \* events of the operation in progress (or of the last one)
    power,      \* "off" | "on": whether the panel is lit (its sleep state)
    ret,        \* value returned by the last call: << >> is None, <<v>> is v
    builds      \* the constructions completed so far, with their commands

vars ==
    <<phase, op, arg, pc, status, err, width, height, pages, buffer, lvl, wire,
      power, ret, builds>>

\* ------------------------------------------------------------------------
\* Primitive steps.
Step(k, pin, v, x, y) == [k |-> k, pin |-> pin, v |-> v, x |-> x, y |-> y]
PinInit(p, v) == Step("init", p, v, 0, 0)
PinValue(p, v) == Step("value", p, v, 0, 0)
SleepMs(n) == Step("sleep", "", n, 0, 0)
SpiWriteByte(b) == Step("wcmd", "", b, 0, 0)
SpiWriteBuffer == Step("wbuf", "", 0, 0, 0)
CheckGeometry == Step("check", "", 0, 0, 0)
Allocate == Step("alloc", "", 0, 0, 0)
FbFill(c) == Step("fill", "", c, 0, 0)
FbPixel(x, y, c) == Step("pixel", "", c, x, y)

Min(a, b) == IF a < b THEN a ELSE b
Max(a, b) == IF a > b THEN a ELSE b

\* ------------------------------------------------------------------------
\* The driver's methods.

\* Variant of write_cmd that selects command mode after the byte is written.
write_cmd_dc_late(cmd) ==
    << PinValue("cs", 0), SpiWriteByte(cmd), PinValue("dc", 0), PinValue("cs", 1) >>

\* Variant of write_cmd that never deselects the chip.
write_cmd_held(cmd) ==
    << PinValue("cs", 0), PinValue("dc", 0), SpiWriteByte(cmd) >>

\* write_cmd (src/ssd1309.py:255-267)
write_cmd(cmd) ==
    << PinValue("cs", 0), PinValue("dc", 0), SpiWriteByte(cmd), PinValue("cs", 1) >>

\* Variant of write_data that leaves the data/command line alone.
write_data_no_dc ==
    << PinValue("cs", 0), SpiWriteBuffer, PinValue("cs", 1) >>

\* write_data (src/ssd1309.py:269-283), called with self.buffer
write_data ==
    << PinValue("cs", 0), PinValue("dc", 1), SpiWriteBuffer, PinValue("cs", 1) >>

\* Variant of reset without the stabilisation delay after release.
reset_no_settle ==
    << PinValue("rst", 1), SleepMs(1),
       PinValue("rst", 0), SleepMs(10),
       PinValue("rst", 1) >>

\* reset (src/ssd1309.py:234-253)
reset ==
    << PinValue("rst", 1), SleepMs(1),
       PinValue("rst", 0), SleepMs(10),
       PinValue("rst", 1), SleepMs(10) >>

\* A run of write_cmd calls, one per command byte, in order.
\* Variant of write_cmds that sends the whole list inside one transaction.
write_cmds_burst(s) ==
    << PinValue("cs", 0), PinValue("dc", 0) >>
        \o SubSeq([i \in 1..Len(s) |-> SpiWriteByte(s[i])], 1, Len(s))
        \o << PinValue("cs", 1) >>

RECURSIVE write_cmds(_)
write_cmds(s) == IF Len(s) = 0 THEN << >> ELSE write_cmd(Head(s)) \o write_cmds(Tail(s))

\* Variant of InitCommands that turns the display off before unlocking.
InitCommands_unlock_late ==
    << DISPLAY_OFF,
       SET_COMMAND_LOCK, UNLOCK,
       SET_CLOCK_DIV, DEFAULT_CLOCK_DIV,
       SET_MULTIPLEX_RATIO, height - 1,
       SET_DISPLAY_OFFSET, 0,
       SET_START_LINE,
       SET_MEMORY_MODE, ADDR_MODE_HORIZONTAL,
       SET_SEG_REMAP_INV,
       SET_COM_SCAN_DEC,
       SET_COM_PINS, DEFAULT_COM_PINS,
       SET_CONTRAST, DEFAULT_CONTRAST,
       SET_PRECHARGE, DEFAULT_PRECHARGE,
       SET_VCOMH_DESELECT, DEFAULT_VCOMH,
       SET_DISPLAY_ALL_ON_RESUME,
       SET_NORMAL_DISPLAY,
       DEACTIVATE_SCROLL,
       DISPLAY_ON >>

\* Variant of InitCommands with the multiplex ratio of a 64-row panel
\* whatever the height.
InitCommands_fixed_mux ==
    << SET_COMMAND_LOCK, UNLOCK,
       DISPLAY_OFF,
       SET_CLOCK_DIV, DEFAULT_CLOCK_DIV,
       SET_MULTIPLEX_RATIO, 63,
       SET_DISPLAY_OFFSET, 0,
       SET_START_LINE,
       SET_MEMORY_MODE, ADDR_MODE_HORIZONTAL,
       SET_SEG_REMAP_INV,
       SET_COM_SCAN_DEC,
       SET_COM_PINS, DEFAULT_COM_PINS,
       SET_CONTRAST, DEFAULT_CONTRAST,
       SET_PRECHARGE, DEFAULT_PRECHARGE,
       SET_VCOMH_DESELECT, DEFAULT_VCOMH,
       SET_DISPLAY_ALL_ON_RESUME,
       SET_NORMAL_DISPLAY,
       DEACTIVATE_SCROLL,
       DISPLAY_ON >>

\* Variant of InitCommands with the SSD1306 charge-pump enable (0x8D, 0x14)
\* before display-on.
InitCommands_charge_pump ==
    << SET_COMMAND_LOCK, UNLOCK,
       DISPLAY_OFF,
       SET_CLOCK_DIV, DEFAULT_CLOCK_DIV,
       SET_MULTIPLEX_RATIO, height - 1,
       SET_DISPLAY_OFFSET, 0,
       SET_START_LINE,
       SET_MEMORY_MODE, ADDR_MODE_HORIZONTAL,
       SET_SEG_REMAP_INV,
       SET_COM_SCAN_DEC,
       SET_COM_PINS, DEFAULT_COM_PINS,
       SET_CONTRAST, DEFAULT_CONTRAST,
       SET_PRECHARGE, DEFAULT_PRECHARGE,
       SET_VCOMH_DESELECT, DEFAULT_VCOMH,
       SET_DISPLAY_ALL_ON_RESUME,
       SET_NORMAL_DISPLAY,
       DEACTIVATE_SCROLL,
       CHARGE_PUMP, 20,
       DISPLAY_ON >>

\* Variant of InitCommands whose orientation opcodes depend on the geometry
\* given at construction.
InitCommands_oriented ==
    << SET_COMMAND_LOCK, UNLOCK,
       DISPLAY_OFF,
       SET_CLOCK_DIV, DEFAULT_CLOCK_DIV,
       SET_MULTIPLEX_RATIO, height - 1,
       SET_DISPLAY_OFFSET, 0,
       SET_START_LINE,
       SET_MEMORY_MODE, ADDR_MODE_HORIZONTAL,
       IF height = 32 THEN SET_SEG_REMAP ELSE SET_SEG_REMAP_INV,
       IF height = 32 THEN SET_COM_SCAN_INC ELSE SET_COM_SCAN_DEC,
       SET_COM_PINS, DEFAULT_COM_PINS,
       SET_CONTRAST, DEFAULT_CONTRAST,
       SET_PRECHARGE, DEFAULT_PRECHARGE,
       SET_VCOMH_DESELECT, DEFAULT_VCOMH,
       SET_DISPLAY_ALL_ON_RESUME,
       SET_NORMAL_DISPLAY,
       DEACTIVATE_SCROLL,
       DISPLAY_ON >>

\* Variant of InitCommands that leaves the contrast the panel has.
InitCommands_keep_contrast ==
    << SET_COMMAND_LOCK, UNLOCK,
       DISPLAY_OFF,
       SET_CLOCK_DIV, DEFAULT_CLOCK_DIV,
       SET_MULTIPLEX_RATIO, height - 1,
       SET_DISPLAY_OFFSET, 0,
       SET_START_LINE,
       SET_MEMORY_MODE, ADDR_MODE_HORIZONTAL,
       SET_SEG_REMAP_INV,
       SET_COM_SCAN_DEC,
       SET_COM_PINS, DEFAULT_COM_PINS,
       SET_PRECHARGE, DEFAULT_PRECHARGE,
       SET_VCOMH_DESELECT, DEFAULT_VCOMH,
       SET_DISPLAY_ALL_ON_RESUME,
       SET_NORMAL_DISPLAY,
       DEACTIVATE_SCROLL,
       DISPLAY_ON >>

\* The arguments of the write_cmd calls of init_display, in program order
\* (src/ssd1309.py:305-372)
InitCommands ==
    << SET_COMMAND_LOCK, UNLOCK,
       DISPLAY_OFF,
       SET_CLOCK_DIV, DEFAULT_CLOCK_DIV,
       SET_MULTIPLEX_RATIO, height - 1,
       SET_DISPLAY_OFFSET, 0,
       SET_START_LINE,
       SET_MEMORY_MODE, ADDR_MODE_HORIZONTAL,
       SET_SEG_REMAP_INV,
       SET_COM_SCAN_DEC,
       SET_COM_PINS, DEFAULT_COM_PINS,
       SET_CONTRAST, DEFAULT_CONTRAST,
       SET_PRECHARGE, DEFAULT_PRECHARGE,
       SET_VCOMH_DESELECT, DEFAULT_VCOMH,
       SET_DISPLAY_ALL_ON_RESUME,
       SET_NORMAL_DISPLAY,
       DEACTIVATE_SCROLL,
       DISPLAY_ON >>

\* init_display (src/ssd1309.py:285-372)
init_display == write_cmds(InitCommands)

\* Variant of ShowCommands that sets the column window only.
ShowCommands_columns_only == << SET_COLUMN_ADDR, 0, width - 1 >>

\* The arguments of the write_cmd calls of show (src/ssd1309.py:391-399)
ShowCommands ==
    << SET_COLUMN_ADDR, 0, width - 1,
       SET_PAGE_ADDR, 0, pages - 1 >>

\* Variant of show that relies on the address window set by an earlier call.
show_no_window == write_data

\* Variant of show that clears the buffer once it is sent.
show_then_clear == write_cmds(ShowCommands) \o write_data \o << FbFill(0) >>

\* show (src/ssd1309.py:374-402)
show == write_cmds(ShowCommands) \o write_data

\* Variant of contrast that sends the level as given.
contrast_unclamped(value) ==
    write_cmd(SET_CONTRAST) \o write_cmd(value)

\* Variant of contrast that masks the level to a byte instead of clamping.
contrast_masked(value) ==
    write_cmd(SET_CONTRAST) \o write_cmd(value % 256)

\* contrast (src/ssd1309.py:404-419)
contrast(value) ==
    LET clamped == Max(0, Min(255, value))
    IN  write_cmd(SET_CONTRAST) \o write_cmd(clamped)

\* Variant of invert with the two opcodes exchanged.
invert_swapped(flag) ==
    IF flag THEN write_cmd(SET_NORMAL_DISPLAY) ELSE write_cmd(SET_INVERTED_DISPLAY)

\* invert (src/ssd1309.py:421-432)
invert(flag) ==
    IF flag THEN write_cmd(SET_INVERTED_DISPLAY) ELSE write_cmd(SET_NORMAL_DISPLAY)

\* Variant of poweroff that sends the display-on opcode.
poweroff_as_on == write_cmd(DISPLAY_ON)

\* poweroff (src/ssd1309.py:434-443)
poweroff == write_cmd(DISPLAY_OFF)

\* Variant of poweron that enables a charge pump before lighting the panel.
poweron_with_pump ==
    write_cmd(CHARGE_PUMP) \o write_cmd(20) \o write_cmd(DISPLAY_ON)

\* poweron (src/ssd1309.py:445-452)
poweron == write_cmd(DISPLAY_ON)

\* fill (src/ssd1309.py:454-465)
fill(color) == << FbFill(color) >>

\* pixel (src/ssd1309.py:467-484); color is None when the caller gives none
pixel(x, y, color) == << FbPixel(x, y, color) >>

\* Variant of the geometry check that accepts any height of whole pages.
Supported_any_pages(w, h) == w = 128 /\ h > 0 /\ h % 8 = 0

\* The geometry check of __init__ (src/ssd1309.py:198)
Supported(w, h) == w = 128 /\ h \in {32, 64}

\* Variant of __init__ that runs the initialization sequence before the
\* reset pulse.
construct_body_init_first ==
    << CheckGeometry, PinInit("dc", 0), PinInit("rst", 1), PinInit("cs", 1), Allocate >>
    \o init_display \o reset

\* Variant of __init__ that ends by sending the freshly allocated buffer.
construct_body_shows ==
    << CheckGeometry, PinInit("dc", 0), PinInit("rst", 1), PinInit("cs", 1), Allocate >>
    \o reset \o init_display \o show

\* Variant of __init__ that configures the control pins before the check.
construct_body_late_check ==
    << PinInit("dc", 0), PinInit("rst", 1), PinInit("cs", 1),
       CheckGeometry,
       Allocate >>
    \o reset \o init_display

\* __init__ (src/ssd1309.py:197-232)
construct_body ==
    << CheckGeometry,
       PinInit("dc", 0), PinInit("rst", 1), PinInit("cs", 1),
       Allocate >>
    \o reset \o init_display

\* The program of the operation in progress.
Code ==
    CASE op = "construct" -> construct_body
      [] op = "reset" -> reset
      [] op = "init_display" -> init_display
      [] op = "show" -> show
      [] op = "contrast" -> contrast(arg[1])
      [] op = "invert" -> invert(arg[1])
      [] op = "poweroff" -> poweroff
      [] op = "poweron" -> poweron
      [] op = "fill" -> fill(arg[1])
      [] op = "pixel" -> pixel(arg[1], arg[2], arg[3])
      [] OTHER -> << >>

\* ------------------------------------------------------------------------
\* framebuf.FrameBuffer in MONO_VLSB format over self.buffer
\* (src/ssd1309.py:221-228): byte (y div 8)*width + x, bit y mod 8.
Pow2(k) == CASE k = 0 -> 1 [] k = 1 -> 2 [] k = 2 -> 4 [] k = 3 -> 8
             [] k = 4 -> 16 [] k = 5 -> 32 [] k = 6 -> 64 [] k = 7 -> 128
Bit(b, k) == (b \div Pow2(k)) % 2
WithBit(b, k, c) == b - Bit(b, k) * Pow2(k) + c * Pow2(k)
Offset(x, y) == (y \div 8) * width + x

\* Variant of FrameBuffer.fill that fills a fresh buffer of one byte per pixel.
FillBuffer_rebuilt(buf, color) ==
    SubSeq([i \in 1..(width * height) |-> IF color # 0 THEN 255 ELSE 0],
           1, width * height)

\* Variant of FrameBuffer.fill that stores the color value in every byte.
FillBuffer_color_byte(buf, color) ==
    SubSeq([i \in 1..Len(buf) |-> color], 1, Len(buf))

\* FrameBuffer.fill(color): every pixel set to (color != 0)
FillBuffer(buf, color) ==
    SubSeq([i \in 1..Len(buf) |-> IF color # 0 THEN 255 ELSE 0], 1, Len(buf))

\* The coordinates framebuf accepts
InFrame(x, y) == 0 <= x /\ x < width /\ 0 <= y /\ y < height

\* FrameBuffer.pixel(x, y, color): in-range coordinates only
SetPixel(buf, x, y, color) ==
    IF InFrame(x, y)
    THEN [buf EXCEPT ![Offset(x, y) + 1] =
              WithBit(buf[Offset(x, y) + 1], y % 8, IF color # 0 THEN 1 ELSE 0)]
    ELSE buf

\* FrameBuffer.pixel(x, y): the getter form
GetPixel(buf, x, y) == Bit(buf[Offset(x, y) + 1], y % 8)

\* bytearray(width * self.pages) (src/ssd1309.py:223)
NewBuffer(n) == SubSeq([i \in 1..n |-> 0], 1, n)

\* ------------------------------------------------------------------------
\* Events recorded on the wire: pin changes, sleeps, bus writes and failed
\* bus writes, each with the pin levels in force when it happened.
Event(k, pin, v, bytes, lines) ==
    [k |-> k, pin |-> pin, v |-> v, bytes |-> bytes, lines |-> lines]

IsWrite(e) == e.k = "write"
IsAttempt(e) == e.k \in {"write", "fail"}

\* The successful bus writes of a trace, in order.
Writes(w) == SelectSeq(w, IsWrite)

\* The first byte of each bus write of a trace, in order.
FirstBytes(w) == [i \in 1..Len(Writes(w)) |-> Writes(w)[i].bytes[1]]

\* The panel's sleep state after a command byte: 0xAE darkens it, 0xAF
\* lights it (src/ssd1309.py:434-452).  No parameter byte the driver sends
\* in these runs has either value.
PanelPower(cur, b) ==
    IF b = DISPLAY_OFF THEN "off" ELSE IF b = DISPLAY_ON THEN "on" ELSE cur

Init ==
    /\ phase = "unconstructed"
    /\ op = ""
    /\ arg = << >>
    /\ pc = 1
    /\ status = "idle"
    /\ err = ""
    /\ width = 0
    /\ height = 0
    /\ pages = 0
    /\ buffer = << >>
    /\ lvl = << >>
    /\ wire = << >>
    /\ power = "off"
    /\ ret = << >>
    /\ builds = {}

\* A call: the operation becomes the one in progress, with an empty trace.
Begin(o, a) ==
    /\ status # "running"
    /\ op' = o
    /\ arg' = a
    /\ pc' = 1
    /\ status' = "running"
    /\ err' = ""
    /\ ret' = << >>
    /\ wire' = << >>

\* SSD1309_SPI(width, height, spi, dc, rst, cs) is called.
Construct ==
    \E w \in Widths, h \in Heights :
        /\ phase = "unconstructed"
        /\ Begin("construct", <<w, h>>)
        /\ UNCHANGED <<phase, width, height, pages, buffer, lvl, power, builds>>

CallOn(o, a) ==
    /\ phase = "ready"
    /\ Begin(o, a)
    /\ UNCHANGED <<phase, width, height, pages, buffer, lvl, power, builds>>

CallReset == CallOn("reset", << >>)
CallInitDisplay == CallOn("init_display", << >>)
CallShow == CallOn("show", << >>)
CallContrast == \E v \in Levels : CallOn("contrast", <<v>>)
CallInvert == \E f \in Flags : CallOn("invert", <<f>>)
CallPoweroff == CallOn("poweroff", << >>)
CallPoweron == CallOn("poweron", << >>)
CallFill == \E c \in Colors : CallOn("fill", <<c>>)
CallPixel ==
    \E p \in Points, c \in PixelColors : CallOn("pixel", <<p[1], p[2], c>>)

\* ------------------------------------------------------------------------
\* Execution of the primitive step at pc.
Running == status = "running" /\ pc <= Len(Code)
Ins == Code[pc]

Advance(ev) ==
    /\ pc' = pc + 1
    /\ wire' = Append(wire, ev)
    /\ UNCHANGED <<phase, op, arg, status, err, width, height, ret, builds>>

Raise(e) ==
    /\ status' = "raised"
    /\ err' = e
    /\ UNCHANGED <<phase, op, arg, pc, width, height, pages, buffer, lvl,
                   power, ret, builds>>

\* The geometry check and the width/height attributes (src/ssd1309.py:197-206)
DoCheck ==
    /\ Running
    /\ Ins.k = "check"
    /\ IF Supported(arg[1], arg[2])
       THEN /\ width' = arg[1]
            /\ height' = arg[2]
            /\ pc' = pc + 1
            /\ UNCHANGED <<phase, op, arg, status, err, pages, buffer, lvl, wire,
                           power, ret, builds>>
       ELSE /\ Raise("ValueError")
            /\ UNCHANGED wire

\* pin.init(pin.OUT, value=v)
DoPinInit ==
    /\ Running
    /\ Ins.k = "init"
    /\ lvl' = (Ins.pin :> Ins.v) @@ lvl
    /\ Advance(Event("init", Ins.pin, Ins.v, << >>, lvl'))
    /\ UNCHANGED <<pages, buffer, power>>

\* pin.value(v); pulling RST low resets the panel, which comes up dark
DoPinValue ==
    /\ Running
    /\ Ins.k = "value"
    /\ lvl' = [lvl EXCEPT ![Ins.pin] = Ins.v]
    /\ power' = IF Ins.pin = "rst" /\ Ins.v = 0 THEN "off" ELSE power
    /\ Advance(Event("value", Ins.pin, Ins.v, << >>, lvl'))
    /\ UNCHANGED <<pages, buffer>>

\* time.sleep_ms(n): at least n milliseconds
DoSleep ==
    /\ Running
    /\ Ins.k = "sleep"
    /\ \E d \in Ins.v .. (Ins.v + MaxJitter) :
           Advance(Event("sleep", "", d, << >>, lvl))
    /\ UNCHANGED <<pages, buffer, lvl, power>>

\* self.spi.write(bytes([cmd])) succeeding; bytes([cmd]) raises ValueError
\* for a value outside 0..255 (src/ssd1309.py:266)
DoWriteByte ==
    /\ Running
    /\ Ins.k = "wcmd"
    /\ IF Ins.v \in 0..255
       THEN /\ Advance(Event("write", "", 1, <<Ins.v>>, lvl))
            /\ power' = PanelPower(power, Ins.v)
            /\ UNCHANGED <<pages, buffer, lvl>>
       ELSE /\ Raise("ValueError")
            /\ wire' = Append(wire, Event("fail", "", 0, << >>, lvl))

\* self.spi.write(buf) succeeding, buf being self.buffer (src/ssd1309.py:282)
DoWriteBuffer ==
    /\ Running
    /\ Ins.k = "wbuf"
    /\ Advance(Event("write", "", Len(buffer), buffer, lvl))
    /\ UNCHANGED <<pages, buffer, lvl, power>>

\* Variant of a raising self.spi.write whose exception is swallowed inside
\* write_cmd / write_data, so that the method carries on.
WriteFails_swallowed ==
    /\ Running
    /\ Ins.k \in {"wcmd", "wbuf"}
    /\ Advance(Event("fail", "", 0, << >>, lvl))
    /\ UNCHANGED <<pages, buffer, lvl, power>>

\* self.spi.write(...) raising: the exception leaves write_cmd / write_data
\* and every caller at once (no try/finally in src/ssd1309.py:264-283)
WriteFails ==
    /\ Running
    /\ Ins.k \in {"wcmd", "wbuf"}
    /\ Raise("OSError")
    /\ wire' = Append(wire, Event("fail", "", 0, << >>, lvl))

\* self.pages = height // 8; self.buffer = bytearray(width * self.pages)
DoAllocate ==
    /\ Running
    /\ Ins.k = "alloc"
    /\ pages' = height \div 8
    /\ buffer' = NewBuffer(width * pages')
    /\ pc' = pc + 1
    /\ UNCHANGED <<phase, op, arg, status, err, width, height, lvl, wire,
                   power, ret, builds>>

\* super().fill(color)
DoFill ==
    /\ Running
    /\ Ins.k = "fill"
    /\ buffer' = FillBuffer(buffer, Ins.v)
    /\ pc' = pc + 1
    /\ UNCHANGED <<phase, op, arg, status, err, width, height, pages, lvl, wire,
                   power, ret, builds>>

\* super().pixel(x, y, color) (src/ssd1309.py:484): framebuf always
\* receives a third argument, so it takes its setter branch and converts
\* color to an integer; None does not convert.  Coordinates outside the
\* frame are ignored before the conversion.
DoPixel ==
    /\ Running
    /\ Ins.k = "pixel"
    /\ IF InFrame(Ins.x, Ins.y) /\ Ins.v = None
       THEN /\ Raise("TypeError")
            /\ UNCHANGED wire
       ELSE /\ buffer' = IF Ins.v = None THEN buffer
                         ELSE SetPixel(buffer, Ins.x, Ins.y, Ins.v[1])
            /\ pc' = pc + 1
            /\ UNCHANGED <<phase, op, arg, status, err, width, height, pages,
                           lvl, wire, power, ret, builds>>

\* The method returns; a returning __init__ yields the driver object.
Return ==
    /\ status = "running"
    /\ pc = Len(Code) + 1
    /\ status' = "returned"
    /\ phase' = IF op = "construct" THEN "ready" ELSE phase
    /\ ret' = None
    /\ builds' = IF op = "construct"
                 THEN builds \cup {<<width, height, FirstBytes(wire)>>}
                 ELSE builds
    /\ UNCHANGED <<op, arg, pc, err, width, height, pages, buffer, lvl, wire,
                   power>>

Next ==
    \/ Construct
    \/ DoCheck
    \/ CallReset
    \/ CallInitDisplay
    \/ CallShow
    \/ CallContrast
    \/ CallInvert
    \/ CallPoweroff
    \/ CallPoweron
    \/ CallFill
    \/ CallPixel
    \/ DoPinInit
    \/ DoPinValue
    \/ DoSleep
    \/ DoWriteByte
    \/ DoWriteBuffer
    \/ WriteFails
    \/ DoAllocate
    \/ DoFill
    \/ DoPixel
    \/ Return

Spec == Init /\ [][Next]_vars

\* ------------------------------------------------------------------------
\* The start-up scenario of src/main.py: the driver is constructed for the
\* 128x64 panel, the buffer is filled with set pixels and shown once
\* (src/main.py:494-501, 175-176).  The events of the three calls are kept
\* on one trace.
ScenarioConstruct ==
    /\ phase = "unconstructed"
    /\ status = "idle"
    /\ Begin("construct", <<128, 64>>)
    /\ UNCHANGED <<phase, width, height, pages, buffer, lvl, power, builds>>

\* The next call of the scenario, made once the call before it has returned.
Continue(o, a) ==
    /\ phase = "ready"
    /\ status = "returned"
    /\ op' = o
    /\ arg' = a
    /\ pc' = 1
    /\ status' = "running"
    /\ err' = ""
    /\ ret' = None
    /\ UNCHANGED <<phase, width, height, pages, buffer, lvl, wire, power, builds>>

ScenarioFill == op = "construct" /\ Continue("fill", <<1>>)
ScenarioShow == op = "fill" /\ Continue("show", << >>)

ScenarioNext ==
    \/ ScenarioConstruct
    \/ ScenarioFill
    \/ ScenarioShow
    \/ DoCheck
    \/ DoPinInit
    \/ DoPinValue
    \/ DoSleep
    \/ DoWriteByte
    \/ DoWriteBuffer
    \/ WriteFails
    \/ DoAllocate
    \/ DoFill
    \/ Return

Scenario == Init /\ [][ScenarioNext]_vars

\* ------------------------------------------------------------------------

\* Drivers constructed one after another on the same pins, as each start of
\* src/main.py does (src/main.py:494-501): a new SSD1309_SPI(...) replaces
\* the driver object there was; pins and panel stay as they are.
Reconstruct ==
    \E w \in Widths, h \in Heights :
        /\ phase = "ready"
        /\ Begin("construct", <<w, h>>)
        /\ phase' = "unconstructed"
        /\ width' = 0
        /\ height' = 0
        /\ pages' = 0
        /\ buffer' = << >>
        /\ UNCHANGED <<lvl, power, builds>>

ConstructionsNext ==
    \/ Construct
    \/ Reconstruct
    \/ CallInitDisplay
    \/ DoCheck
    \/ DoPinInit
    \/ DoPinValue
    \/ DoSleep
    \/ DoWriteByte
    \/ WriteFails
    \/ DoAllocate
    \/ Return

Constructions == Init /\ [][ConstructionsNext]_vars

\* ------------------------------------------------------------------------

\* show() called again and again with no drawing in between, as the loop of
\* measure_refresh_rate does (src/main.py:179-181), also after a show() that
\* a failing bus write aborted.  The events of these calls are kept on one
\* trace; MaxRepeats bounds the calls that follow the first.
IsShowEnd(e) == e.k = "fail" \/ (IsWrite(e) /\ e.lines["dc"] = 1)

ShowAgain ==
    /\ phase = "ready"
    /\ op = "show"
    /\ status \in {"returned", "raised"}
    /\ Len(SelectSeq(wire, IsShowEnd)) <= MaxRepeats
    /\ op' = "show"
    /\ arg' = << >>
    /\ pc' = 1
    /\ status' = "running"
    /\ err' = ""
    /\ ret' = None
    /\ UNCHANGED <<phase, width, height, pages, buffer, lvl, wire, power, builds>>

RepeatsNext ==
    \/ Construct
    \/ CallFill
    \/ CallPixel
    \/ CallShow
    \/ ShowAgain
    \/ DoCheck
    \/ DoPinInit
    \/ DoPinValue
    \/ DoSleep
    \/ DoWriteByte
    \/ DoWriteBuffer
    \/ WriteFails
    \/ DoAllocate
    \/ DoFill
    \/ DoPixel
    \/ Return

Repeats == Init /\ [][RepeatsNext]_vars

\* ------------------------------------------------------------------------

\* Explicit reinitialization: after any calls of show, contrast, invert,
\* poweroff and poweron, failed ones included, reset() is called and then
\* init_display() (src/ssd1309.py:234-253, 285-372).  The events of the two
\* calls are kept on one trace.
Reinit == op = "reset" /\ Continue("init_display", << >>)

ReinitNext ==
    \/ Construct
    \/ CallShow
    \/ CallContrast
    \/ CallInvert
    \/ CallPoweroff
    \/ CallPoweron
    \/ CallReset
    \/ Reinit
    \/ DoCheck
    \/ DoPinInit
    \/ DoPinValue
    \/ DoSleep
    \/ DoWriteByte
    \/ DoWriteBuffer
    \/ WriteFails
    \/ DoAllocate
    \/ Return

Reinitialization == Init /\ [][ReinitNext]_vars

\* ------------------------------------------------------------------------

\* Observations on the wire.

IsPrefix(a, b) == Len(a) <= Len(b) /\ \A i \in 1..Len(a) : a[i] = b[i]

\* No bus write is left in the program from pc on.
NoWriteLeft == \A j \in pc..Len(Code) : Code[j].k \notin {"wcmd", "wbuf"}

Ended == status \in {"returned", "raised"}
InitRuns == op \in {"construct", "init_display"}

\* The hold times of the reset line over the first n events of a trace:
\* one entry per level, with the milliseconds slept at that level.
IsResetEvent(e) == (e.k \in {"init", "value"} /\ e.pin = "rst") \/ e.k = "sleep"

RECURSIVE Holds(_)
Holds(s) ==
    IF Len(s) = 0 THEN << >>
    ELSE LET prev == Holds(SubSeq(s, 1, Len(s) - 1))
             e == s[Len(s)]
             last == Len(prev)
         IN  CASE e.k # "sleep" ->
                      IF last > 0 /\ prev[last].level = e.v
                      THEN prev
                      ELSE Append(prev, [level |-> e.v, ms |-> 0])
               [] e.k = "sleep" /\ last > 0 ->
                      [prev EXCEPT ![last].ms = @ + e.v]
               [] OTHER -> prev

RstHolds(w, n) == Holds(SelectSeq(SubSeq(w, 1, n), IsResetEvent))

\* ------------------------------------------------------------------------
\* C1: the bytes written by init_display() (called by __init__ or directly)
\* begin with the unlock pair 0xFD, 0x12 and end with display-on 0xAF:
\* the first write is 0xFD, the second 0x12, 0xAF is never written while
\* another write is still to come, and a completed run ends on 0xAF.
C1_UnlockFirstDisplayOnLast ==
    InitRuns =>
        LET b == FirstBytes(wire)
        IN  /\ \A i \in 1..Len(b) : Len(Writes(wire)[i].bytes) = 1
            /\ Len(b) >= 1 => b[1] = 253
            /\ Len(b) >= 2 => b[2] = 18
            /\ \A i \in 1..Len(b) :
                   /\ i > 2 => ~(b[i - 1] = 253 /\ b[i] = 18)
                   /\ b[i] = 175 => i > 2 /\ i = Len(b) /\ NoWriteLeft
            /\ status = "returned" => Len(b) > 3 /\ b[Len(b)] = 175

C1_Witness ==
    /\ op = "init_display"
    /\ status = "returned"
    /\ height = 32
    /\ Len(Writes(wire)) = 26
    /\ Writes(wire)[26].bytes = <<175>>

\* The bus writes of a complete show(), as byte strings.
C2_Expected ==
    << <<33>>, <<0>>, <<width - 1>>, <<34>>, <<0>>, <<pages - 1>>, buffer >>

\* C2: every show() writes the command bytes 0x21, 0x00, width-1, 0x22,
\* 0x00, pages-1 in command mode, in that order, then the data phase, and
\* nothing else: the bus writes of a show() are at every moment a prefix of
\* that sequence, and all of it once show() has returned.
C2_ShowWindowThenData ==
    op = "show" =>
        LET w == Writes(wire)
        IN  /\ IsPrefix([i \in 1..Len(w) |-> w[i].bytes], C2_Expected)
            /\ \A i \in 1..Len(w) : w[i].lines["dc"] = (IF i <= 6 THEN 0 ELSE 1)
            /\ width - 1 = 127
            /\ pages - 1 \in {3, 7}
            /\ status = "returned" => Len(w) = 7

C2_Witness ==
    /\ op = "show"
    /\ status = "returned"
    /\ lvl["dc"] = 1
    /\ pages = 4
    /\ Writes(wire)[6].bytes = <<3>>
    /\ \E i \in 1..Len(buffer) : buffer[i] # 0

\* The positions of the data-mode bus writes of a trace.
DataWrites(w) == {i \in 1..Len(w) : w[i].k = "write" /\ w[i].lines["dc"] = 1}

\* C3: the data phase of a show() is one data-mode framed transaction:
\* chip-select to 0, data/command to 1, one write of the whole buffer
\* (width*pages bytes), chip-select to 1; no other data-mode write occurs.
C3_OneFullDataTransaction ==
    op = "show" =>
        /\ Cardinality(DataWrites(wire)) <= 1
        /\ \A i \in DataWrites(wire) :
               /\ i > 2
               /\ wire[i - 2].k = "value" /\ wire[i - 2].pin = "cs" /\ wire[i - 2].v = 0
               /\ wire[i - 1].k = "value" /\ wire[i - 1].pin = "dc" /\ wire[i - 1].v = 1
               /\ wire[i].lines["cs"] = 0
               /\ wire[i].bytes = buffer
               /\ Len(wire[i].bytes) = width * pages
               /\ Len(wire) > i =>
                      /\ Len(wire) = i + 1
                      /\ wire[i + 1].k = "value" /\ wire[i + 1].pin = "cs"
                      /\ wire[i + 1].v = 1
        /\ status = "returned" =>
               /\ Cardinality(DataWrites(wire)) = 1
               /\ Len(wire) - 1 \in DataWrites(wire)

C3_Witness ==
    /\ op = "show"
    /\ status = "returned"
    /\ Len(wire[Len(wire) - 1].bytes) = 1024
    /\ wire[Len(wire) - 1].bytes[1] = 1
    /\ wire[Len(wire) - 1].bytes[902] = 16

\* C4: after any operation returns or raises, chip-select is not left
\* asserted (0).
C4_ChipSelectReleased ==
    (Ended /\ "cs" \in DOMAIN lvl) => lvl["cs"] = 1

\* The initialization bytes for a multiplex parameter and two orientation opcodes.
C5_Sequence(mux, seg, com) ==
    << 253, 18, 174, 213, 128, 168, mux, 211, 0, 64, 32, 0, seg, com,
       218, 18, 129, 207, 217, 241, 219, 48, 164, 166, 46, 175 >>

\* C5: init_display() writes exactly the 17 command groups, one command-mode
\* byte per write: 0xFD 0x12, 0xAE, 0xD5 0x80, 0xA8 height-1, 0xD3 0x00, 0x40,
\* 0x20 0x00, segment remap, COM scan, 0xDA 0x12, 0x81 0xCF, 0xD9 0xF1,
\* 0xDB 0x30, 0xA4, 0xA6, 0x2E, 0xAF; the multiplex parameter is 0x3F for
\* height 64 and 0x1F for height 32.
C5_InitSequenceExact ==
    InitRuns =>
        LET w == Writes(wire)
            mux == IF height = 64 THEN 63 ELSE 31
        IN  /\ \A i \in 1..Len(w) : Len(w[i].bytes) = 1 /\ w[i].lines["dc"] = 0
            /\ \E seg \in {160, 161}, com \in {192, 200} :
                   IsPrefix(FirstBytes(wire), C5_Sequence(mux, seg, com))
            /\ status = "returned" => Len(w) = 26

C5_Witness ==
    /\ op = "construct"
    /\ status = "returned"
    /\ height = 32
    /\ FirstBytes(wire)[7] = 31
    /\ Len(Writes(wire)) = 26

\* C6: no byte written by init_display() is the charge-pump-enable opcode
\* 0x8D, for either height.
C6_NoChargePumpInInit ==
    InitRuns =>
        \A i \in 1..Len(wire) :
            \A j \in 1..Len(wire[i].bytes) : wire[i].bytes[j] # 141

C6_Witness ==
    /\ op = "init_display"
    /\ status = "returned"
    /\ height = 64
    /\ Len(Writes(wire)) = 26
    /\ FirstBytes(wire)[7] = 63

\* C7: a construction raises ValueError exactly when the geometry is not
\* 128x32 or 128x64 (then at the check, before anything else); with a
\* supported geometry it passes the check, can only be stopped by a failing
\* bus write, and when it returns the buffer has width*height/8 bytes
\* (512 or 1024).
C7_GeometryDecidesConstruction ==
    op = "construct" =>
        LET ok == arg[1] = 128 /\ arg[2] \in {32, 64}
        IN  /\ ~ok => \/ status = "running" /\ pc = 1
                      \/ status = "raised" /\ err = "ValueError"
            /\ ok => /\ err # "ValueError"
                     /\ status = "raised" =>
                            /\ err = "OSError"
                            /\ wire[Len(wire)].k = "fail"
            /\ ~ok => phase = "unconstructed"
            /\ status = "returned" =>
                   /\ ok
                   /\ phase = "ready"
                   /\ Len(buffer) = (arg[1] * arg[2]) \div 8
                   /\ Len(buffer) = width * pages
                   /\ Len(buffer) \in {512, 1024}

C7_Witness ==
    /\ op = "construct"
    /\ status = "returned"
    /\ arg = <<128, 32>>
    /\ Len(buffer) = 512
    /\ phase = "ready"

\* C8: a construction refused for its geometry has caused no bus activity:
\* it configured and drove no control line, slept through no reset pulse
\* and wrote no byte.
C8_RejectBeforeBusActivity ==
    (op = "construct" /\ err = "ValueError") => Len(wire) = 0

C8_Witness ==
    /\ op = "construct"
    /\ status = "raised"
    /\ err = "ValueError"
    /\ arg = <<128, 48>>
    /\ DOMAIN lvl = {}
    /\ Len(buffer) = 0

\* C9: in a construction the reset line is high for at least 1 ms, low for
\* at least 10 ms and high again for at least 10 ms before any bus write is
\* attempted; the line takes these three levels once, in this order, and
\* the first byte written after them is 0xFD.
C9_ResetTraceBeforeFirstByte ==
    op = "construct" =>
        LET all == RstHolds(wire, Len(wire))
        IN  /\ Len(all) <= 3
            /\ Len(all) >= 1 => all[1].level = 1
            /\ Len(all) >= 2 => all[2].level = 0 /\ all[1].ms >= 1
            /\ Len(all) >= 3 => all[3].level = 1 /\ all[2].ms >= 10
            /\ \A i \in 1..Len(wire) :
                   IsAttempt(wire[i]) =>
                       LET h == RstHolds(wire, i - 1)
                       IN  /\ Len(h) = 3
                           /\ h[1].level = 1 /\ h[1].ms >= 1
                           /\ h[2].level = 0 /\ h[2].ms >= 10
                           /\ h[3].level = 1 /\ h[3].ms >= 10
                           /\ wire[i].lines["rst"] = 1
            /\ Len(Writes(wire)) >= 1 => Writes(wire)[1].bytes = <<253>>
            /\ status = "returned" => Len(all) = 3 /\ Len(Writes(wire)) >= 1

C9_Witness ==
    /\ op = "construct"
    /\ status = "returned"
    /\ RstHolds(wire, Len(wire)) =
           << [level |-> 1, ms |-> 2], [level |-> 0, ms |-> 10], [level |-> 1, ms |-> 11] >>
    /\ Writes(wire)[1].bytes = <<253>>

\* The bus writes of contrast(level): 0x81, then the clamped level.
C10_ContrastBytes ==
    op = "contrast" =>
        LET w == Writes(wire)
            clamped == IF arg[1] < 0 THEN 0 ELSE IF arg[1] > 255 THEN 255 ELSE arg[1]
        IN  /\ Len(w) <= 2
            /\ \A i \in 1..Len(w) : w[i].lines["dc"] = 0
            /\ Len(w) >= 1 => w[1].bytes = <<129>>
            /\ Len(w) >= 2 => w[2].bytes = <<clamped>>
            /\ err # "ValueError"
            /\ status = "returned" => Len(w) = 2

\* C10: contrast(level) writes two command-mode bytes, 0x81 and then the
\* level clamped to 0..255 (0 below 0, 255 above 255), never fails to encode
\* its parameter, and leaves the pixel buffer unchanged.
C10_ContrastClampedBufferKept ==
    /\ []C10_ContrastBytes
    /\ [][op' = "contrast" => buffer' = buffer]_vars

C10_Witness ==
    /\ op = "contrast"
    /\ status = "returned"
    /\ arg[1] = -5
    /\ Writes(wire)[2].bytes = <<0>>
    /\ \E i \in 1..Len(buffer) : buffer[i] # 0

\* The bus writes of invert(flag): one command byte, 0xA7 or 0xA6.
C11_InvertByte ==
    op = "invert" =>
        LET w == Writes(wire)
        IN  /\ Len(w) <= 1
            /\ \A i \in 1..Len(w) :
                   /\ w[i].lines["dc"] = 0
                   /\ w[i].bytes = IF arg[1] THEN <<167>> ELSE <<166>>
            /\ status = "returned" => Len(w) = 1

\* C11: invert(flag) writes exactly one command-mode byte, 0xA7 when flag is
\* true and 0xA6 when it is false, and no step of an invert call, from the
\* call to its end, changes the pixel buffer; so the buffer after
\* invert(True); invert(False) is the buffer before the pair.
C11_InvertOneByteBufferKept ==
    /\ []C11_InvertByte
    /\ [][op' = "invert" => buffer' = buffer]_vars

C11_Witness ==
    /\ op = "invert"
    /\ status = "returned"
    /\ arg[1] = TRUE
    /\ Writes(wire)[1].bytes = <<167>>
    /\ \E i \in 1..Len(buffer) : buffer[i] # 0

\* The bus writes of poweroff() and poweron(): one command byte each.
C12_PowerBytes ==
    op \in {"poweroff", "poweron"} =>
        LET w == Writes(wire)
        IN  /\ Len(w) <= 1
            /\ \A i \in 1..Len(w) :
                   /\ w[i].lines["dc"] = 0
                   /\ w[i].bytes = IF op = "poweroff" THEN <<174>> ELSE <<175>>
            /\ status = "returned" =>
                   /\ Len(w) = 1
                   /\ power = IF op = "poweroff" THEN "off" ELSE "on"

\* A show() made while the panel is dark sends what any show() sends.
C12_ShowWhileOff ==
    (op = "show" /\ power = "off") =>
        LET w == Writes(wire)
        IN  /\ IsPrefix(FirstBytes(SubSeq(w, 1, Min(Len(w), 6))),
                        <<33, 0, width - 1, 34, 0, pages - 1>>)
            /\ \A i \in 1..Len(w) : i <= 6 => Len(w[i].bytes) = 1
            /\ Len(w) <= 7
            /\ Len(w) = 7 => w[7].bytes = buffer /\ Len(w[7].bytes) = width * pages
            /\ status = "returned" => Len(w) = 7

\* C12: poweroff() writes exactly the command byte 0xAE and poweron() exactly
\* 0xAF; no step of either changes the pixel buffer; and a show() issued
\* while the panel is powered off still transmits the six window commands
\* and the full buffer.
C12_PowerOneByteShowStillSends ==
    /\ []C12_PowerBytes
    /\ []C12_ShowWhileOff
    /\ [][op' \in {"poweroff", "poweron"} => buffer' = buffer]_vars

C12_Witness ==
    /\ op = "show"
    /\ status = "returned"
    /\ power = "off"
    /\ Len(Writes(wire)) = 7
    /\ Writes(wire)[7].bytes = buffer
    /\ \E i \in 1..Len(buffer) : buffer[i] # 0

\* The operations that write to the bus.
BusOps ==
    {"construct", "init_display", "show", "contrast", "invert", "poweroff", "poweron"}

\* A failed bus write is the last thing its operation does, and the operation
\* ends with the transport's exception.
C13_FailureIsLast ==
    LET n == Len(wire)
    IN  /\ \A i \in 1..n :
               wire[i].k = "fail" =>
                   /\ i = n
                   /\ status = "raised"
                   /\ err = "OSError"
                   /\ op \in BusOps
        /\ (status = "raised" /\ err = "OSError") =>
               /\ n > 0
               /\ wire[n].k = "fail"
               /\ Code[pc].k \in {"wcmd", "wbuf"}
        /\ (status = "raised" /\ op = "construct") => phase = "unconstructed"
        /\ (status = "raised" /\ op = "show" /\ Len(Writes(wire)) < 6) =>
               \A i \in 1..n : IsWrite(wire[i]) => wire[i].lines["dc"] = 0

\* C13: a bus write that fails ends the operation in progress (construction,
\* show, contrast, invert, poweroff, poweron) with the transport's error: the
\* failed write is the last event of the operation, it is not attempted
\* again, no byte of the operation follows it (a show() whose window command
\* fails sends no data), and the next thing to happen is a new call.
C13_WriteFailurePropagates ==
    /\ []C13_FailureIsLast
    /\ [][status = "raised" => (status' = "running" /\ pc' = 1 /\ wire' = << >>)]_vars

C13_Witness ==
    /\ op = "show"
    /\ status = "raised"
    /\ err = "OSError"
    /\ Len(Writes(wire)) = 3
    /\ wire[Len(wire)].k = "fail"
    /\ Len(wire) = 15

\* The command bytes of the scenario after some initialization sequence with
\* multiplex parameter 0x3F.
C14_Commands(seg, com) == C5_Sequence(63, seg, com) \o <<33, 0, 127, 34, 0, 7>>

\* C14: in the scenario that constructs a 128x64 driver, fills the buffer
\* with set bits and calls show() once, the bus carries, in order, the 26
\* bytes of the initialization sequence (0xFD 0x12 first, 0xAF last), the
\* command bytes 0x21 0x00 0x7F 0x22 0x00 0x07 and then one data write of
\* exactly 1024 bytes 0xFF, and nothing else: at every moment the writes made
\* so far are a prefix of that stream, and all of it once show() has returned.
C14_ScenarioStream ==
    LET w == Writes(wire)
        n == Len(w)
    IN  /\ n <= 33
        /\ \E seg \in {160, 161}, com \in {192, 200} :
               IsPrefix(FirstBytes(SubSeq(w, 1, Min(n, 32))), C14_Commands(seg, com))
        /\ \A i \in 1..n :
               IF i <= 32
               THEN Len(w[i].bytes) = 1 /\ w[i].lines["dc"] = 0
               ELSE /\ Len(w[i].bytes) = 1024
                    /\ \A j \in 1..1024 : w[i].bytes[j] = 255
                    /\ w[i].lines["dc"] = 1
        /\ (op = "show" /\ status = "returned") => n = 33

C14_Witness ==
    /\ op = "show"
    /\ status = "returned"
    /\ Len(Writes(wire)) = 33
    /\ Writes(wire)[1].bytes = <<253>>
    /\ Writes(wire)[26].bytes = <<175>>
    /\ Writes(wire)[32].bytes = <<7>>
    /\ Writes(wire)[33].bytes[1024] = 255

\* What one step of pixel(x, y, 1) on coordinates of the frame does: the byte
\* at offset (y div 8)*width + x gets bit y mod 8 set, nothing else changes.
C15_SetStep ==
    (op = "pixel" /\ status = "running" /\ InFrame(arg[1], arg[2]) /\ arg[3] = Some(1)) =>
        LET off == (arg[2] \div 8) * width + arg[1] + 1
            k == arg[2] % 8
            had == (buffer[off] \div (2 ^ k)) % 2
        IN  /\ status' # "raised"
            /\ Len(buffer') = Len(buffer)
            /\ pc = 1 =>
                   \A i \in 1..Len(buffer) :
                       buffer'[i] = IF i = off
                                    THEN buffer[i] + (1 - had) * (2 ^ k)
                                    ELSE buffer[i]
            /\ pc # 1 => buffer' = buffer

\* What one step of the read pixel(x, y) on coordinates of the frame does:
\* it does not fail, leaves the buffer alone and returns the pixel's bit.
C15_GetStep ==
    (op = "pixel" /\ status = "running" /\ InFrame(arg[1], arg[2]) /\ arg[3] = None) =>
        /\ status' # "raised"
        /\ buffer' = buffer
        /\ status' = "returned" => ret' = Some(GetPixel(buffer, arg[1], arg[2]))

\* The write half of the packing: every step of pixel(x, y, 1) obeys C15_SetStep.
C15_SetterPacking == [][C15_SetStep]_vars

\* C15: the buffer is packed vertically, least significant bit at the top:
\* setting pixel (x, y) of the frame to 1 sets bit (y mod 8) of the byte at
\* offset (y div 8)*width + x and changes no other bit of the buffer, and
\* reading pixel (x, y) returns that bit.
C15_VerticalLsbPacking == [][C15_SetStep /\ C15_GetStep]_vars

\* C16: once the driver is constructed the pixel buffer holds exactly
\* width*pages bytes, pages being height/8, in every reachable state: no
\* show, contrast, invert, poweroff, poweron, reset, init_display, fill or
\* pixel call, finished, failed or under way, changes its length.
C16_BufferLengthFixed ==
    phase = "ready" =>
        /\ pages = height \div 8
        /\ Len(buffer) = width * pages
        /\ Len(buffer) \in {512, 1024}

C16_Witness ==
    /\ phase = "ready"
    /\ op = "pixel"
    /\ status = "returned"
    /\ Len(buffer) = 512
    /\ buffer[512] = 128
    /\ power = "off"

\* Every geometry the constructor accepts has been constructed.
AllBuilt ==
    \A w \in Widths, h \in Heights :
        Supported(w, h) => \E b \in builds : b[1] = w /\ b[2] = h

\* C17 as claimed: the orientation opcodes follow a construction-time choice,
\* so among the constructions the constructor accepts there is one that sends
\* segment remap 0xA0 and one that sends 0xA1, one that sends COM scan 0xC0
\* and one that sends 0xC8; once all of them have been made, all four
\* opcodes have been sent.
C17_OrientationSelectable ==
    AllBuilt =>
        /\ \A seg \in {160, 161} : \E b \in builds : b[3][13] = seg
        /\ \A com \in {192, 200} : \E b \in builds : b[3][14] = com

\* C17: the orientation opcodes are fixed: every construction that completed,
\* whatever its arguments, and every init_display() sends segment remap 0xA1
\* as its 13th byte and COM scan 0xC8 as its 14th; 0xA0 and 0xC0 are never
\* sent in those places.
C17_OrientationFixed ==
    /\ \A b \in builds : b[3][13] = 161 /\ b[3][14] = 200
    /\ InitRuns =>
           LET f == FirstBytes(wire)
           IN  /\ Len(f) >= 13 => f[13] = 161
               /\ Len(f) >= 14 => f[14] = 200

C17_Witness ==
    /\ AllBuilt
    /\ Cardinality(builds) = 2
    /\ op = "init_display"
    /\ status = "returned"

\* C18 as claimed, in the case it names: once show() has returned the three
\* control lines are at chip-select 1, data/command 0, reset 1.
C18_IdleAfterShow ==
    (op = "show" /\ status = "returned") =>
        lvl["cs"] = 1 /\ lvl["dc"] = 0 /\ lvl["rst"] = 1

\* The control lines when an operation has returned.
C18_LinesAfterReturn ==
    status = "returned" =>
        /\ lvl["rst"] = 1
        /\ op \in BusOps =>
               /\ lvl["cs"] = 1
               /\ lvl["dc"] = IF op = "show" THEN 1 ELSE 0

\* C18: after construction and after init_display, show, contrast, invert,
\* poweroff or poweron has returned, chip-select is 1 and reset is 1, and
\* data/command is at the level of the operation's last write: 0 after the
\* command-only operations, 1 after show().  reset() returns with reset at 1
\* and leaves chip-select and data/command as they were; fill and pixel
\* touch no line.
C18_LinesWhenReturned ==
    /\ []C18_LinesAfterReturn
    /\ [][op' \in {"fill", "pixel"} => lvl' = lvl]_vars
    /\ [][op' = "reset" => (lvl'["cs"] = lvl["cs"] /\ lvl'["dc"] = lvl["dc"])]_vars

C18_Witness ==
    /\ op = "show"
    /\ status = "returned"
    /\ lvl["cs"] = 1
    /\ lvl["dc"] = 1
    /\ lvl["rst"] = 1

\* The completed bus writes and the chip-select changes of a trace, in order.
IsFraming(e) == IsWrite(e) \/ (e.k = "value" /\ e.pin = "cs")
Framing(w) == SelectSeq(w, IsFraming)

\* C19: every command byte, opcode or parameter, is a framed transaction of
\* its own: each command-mode bus write carries exactly one byte, chip-select
\* is asserted just before it, and when a write came before it chip-select
\* was released to 1 after that write and asserted again, so no two command
\* bytes share a transaction.
C19_OneByteTransactions ==
    LET f == Framing(wire)
    IN  \A i \in 1..Len(f) :
            (IsWrite(f[i]) /\ f[i].lines["dc"] = 0) =>
                /\ Len(f[i].bytes) = 1
                /\ i >= 2
                /\ f[i - 1].k = "value" /\ f[i - 1].v = 0
                /\ i >= 3 =>
                       /\ i >= 4
                       /\ f[i - 2].k = "value" /\ f[i - 2].v = 1
                       /\ IsWrite(f[i - 3])

C19_Witness ==
    /\ op = "contrast"
    /\ status = "returned"
    /\ arg[1] = 141
    /\ Len(wire) = 8
    /\ wire[3].bytes = <<129>>
    /\ wire[4].pin = "cs" /\ wire[4].v = 1
    /\ wire[5].pin = "cs" /\ wire[5].v = 0
    /\ wire[7].bytes = <<141>>

\* The level the data/command line must have for the i-th event of the
\* trace, a bus write or a failed one: 1 for the pixel buffer, 0 for a
\* command byte.
C20_Kind(i) ==
    IF IsWrite(wire[i])
    THEN IF wire[i].bytes = buffer THEN 1 ELSE 0
    ELSE IF Code[pc].k = "wbuf" THEN 1 ELSE 0

\* C20: at every bus write, completed or failing, chip-select is 0, reset is
\* 1 and data/command already has the level of the kind of bytes sent (0 for
\* a command byte, 1 for the pixel buffer); within the transaction the order
\* is: assert chip-select, set data/command, write, release chip-select.
C20_FramingInvariant ==
    \A i \in 1..Len(wire) :
        IsAttempt(wire[i]) =>
            /\ wire[i].lines["cs"] = 0
            /\ wire[i].lines["rst"] = 1
            /\ wire[i].lines["dc"] = C20_Kind(i)
            /\ IsWrite(wire[i]) => Len(wire[i].bytes) \in {1, width * pages}
            /\ i >= 3
            /\ wire[i - 2].k = "value" /\ wire[i - 2].pin = "cs" /\ wire[i - 2].v = 0
            /\ wire[i - 1].k = "value" /\ wire[i - 1].pin = "dc"
            /\ wire[i - 1].v = C20_Kind(i)
            /\ i < Len(wire) =>
                   wire[i + 1].k = "value" /\ wire[i + 1].pin = "cs" /\ wire[i + 1].v = 1

C20_Witness ==
    /\ op = "show"
    /\ status = "returned"
    /\ Len(wire) = 28
    /\ wire[27].k = "write"
    /\ wire[27].bytes = buffer
    /\ wire[27].lines["cs"] = 0 /\ wire[27].lines["dc"] = 1 /\ wire[27].lines["rst"] = 1
    /\ wire[3].lines["dc"] = 0
    /\ \E j \in 1..Len(buffer) : buffer[j] # 0

\* The bus writes of a trace, completed or failed, in order.
Attempts(w) == SelectSeq(w, IsAttempt)

\* The place of the i-th bus write within its show(): the number of bus
\* writes since the show() before it ended.
PlaceInShow(a, i) ==
    LET ends == {j \in 1..(i - 1) : IsShowEnd(a[j])}
        last == IF ends = {} THEN 0 ELSE CHOOSE j \in ends : \A k \in ends : k <= j
    IN  i - last

\* C21: when a show() was aborted by a failing bus write, in a window command
\* or in the data phase, the show() made next emits what a show() without
\* failure history emits: each of its writes is the one C2 puts at its
\* place (0x21, 0, width-1, 0x22, 0, pages-1, then the whole buffer), and a
\* show() that returns has made all seven.
C21_ShowAfterAbort ==
    op = "show" =>
        LET a == Attempts(wire)
        IN  /\ \A i \in 1..Len(a) :
                   /\ PlaceInShow(a, i) <= 7
                   /\ IsWrite(a[i]) =>
                          /\ a[i].bytes = C2_Expected[PlaceInShow(a, i)]
                          /\ a[i].lines["dc"] = IF PlaceInShow(a, i) = 7 THEN 1 ELSE 0
            /\ status = "returned" =>
                   /\ Len(a) >= 7
                   /\ PlaceInShow(a, Len(a)) = 7
                   /\ IsWrite(a[Len(a)])

C21_Witness ==
    /\ op = "show"
    /\ status = "returned"
    /\ Len(Attempts(wire)) = 14
    /\ Attempts(wire)[7].k = "fail"
    /\ Attempts(wire)[8].bytes = <<33>>
    /\ Attempts(wire)[14].bytes = buffer
    /\ \E j \in 1..Len(buffer) : buffer[j] # 0

\* The trace of a construction: the three pin configurations first, then the
\* reset pulse, then the bus writes.
C22_ConstructionOrder ==
    op = "construct" =>
        LET n == Len(wire)
        IN  /\ n >= 1 => wire[1].k = "init" /\ wire[1].pin = "dc" /\ wire[1].v = 0
            /\ n >= 2 => wire[2].k = "init" /\ wire[2].pin = "rst" /\ wire[2].v = 1
            /\ n >= 3 => wire[3].k = "init" /\ wire[3].pin = "cs" /\ wire[3].v = 1
            /\ \A i \in 1..n :
                   /\ wire[i].k = "init" => i <= 3
                   /\ IsResetEvent(wire[i]) => (i = 2 \/ (4 <= i /\ i <= 9))
                   /\ IsAttempt(wire[i]) => i > 9
            /\ n >= 9 =>
                   /\ wire[4].pin = "rst" /\ wire[4].v = 1
                   /\ wire[6].pin = "rst" /\ wire[6].v = 0
                   /\ wire[8].pin = "rst" /\ wire[8].v = 1
                   /\ wire[5].k = "sleep" /\ wire[7].k = "sleep" /\ wire[9].k = "sleep"
            /\ Len(Writes(wire)) <= 26
            /\ status = "returned" => Len(Writes(wire)) = 26

\* The operations on a driver, and every data-mode write, come after a
\* construction of this geometry that completed with its 26 command bytes.
C22_ReadyFirst ==
    (\/ op \in {"show", "contrast", "invert", "poweroff", "poweron"}
     \/ \E i \in 1..Len(wire) : IsWrite(wire[i]) /\ wire[i].lines["dc"] = 1) =>
        /\ phase = "ready"
        /\ \E b \in builds :
               /\ b[1] = width /\ b[2] = height
               /\ Len(b[3]) = 26
               /\ b[3][1] = 253 /\ b[3][26] = 175

\* C22: a successful construction configures the control lines, then pulses
\* the reset line, then writes the initialization sequence, each once and in
\* this order; a driver exists only from the return of such a construction,
\* and show, contrast, invert, poweroff, poweron and every data-mode write
\* happen only on an existing driver.
C22_LifecycleOrder ==
    /\ []C22_ConstructionOrder
    /\ []C22_ReadyFirst
    /\ [][(phase # "ready" /\ phase' = "ready") =>
              /\ op = "construct"
              /\ Len(wire) = 113
              /\ Len(Writes(wire)) = 26
              /\ Len(RstHolds(wire, 9)) = 3]_vars

C22_Witness ==
    /\ op = "show"
    /\ status = "returned"
    /\ phase = "ready"
    /\ builds = {<<128, 64, C5_Sequence(63, 161, 200)>>}
    /\ Writes(wire)[7].lines["dc"] = 1

\* C23: whatever show, contrast, invert, poweroff and poweron calls came
\* before and however they ended, reset() followed by init_display() puts on
\* the reset line what a construction puts there (high at least 1 ms, low
\* at least 10 ms, high at least 10 ms before the first byte) and writes the
\* command bytes that the construction of this geometry wrote, among them
\* contrast 0xCF, normal display 0xA6 and, last, display on 0xAF.
C23_ReinitLikeConstruction ==
    (op \in {"reset", "init_display"} /\ Len(wire) >= 1 /\ wire[1].pin = "rst") =>
        LET h == RstHolds(wire, Min(Len(wire), 6))
            f == FirstBytes(wire)
        IN  /\ Len(h) <= 3
            /\ Len(h) >= 1 => h[1].level = 1
            /\ Len(h) >= 2 => h[2].level = 0 /\ h[1].ms >= 1
            /\ Len(h) >= 3 => h[3].level = 1 /\ h[2].ms >= 10
            /\ \A i \in 1..Len(wire) :
                   /\ IsAttempt(wire[i]) =>
                          /\ i > 6
                          /\ Len(h) = 3 /\ h[3].ms >= 10
                          /\ wire[i].lines["rst"] = 1
                   /\ IsResetEvent(wire[i]) => i <= 6
            /\ (op = "reset" /\ status = "returned") => Len(h) = 3 /\ h[3].ms >= 10
            /\ \E b \in builds :
                   /\ b[1] = width /\ b[2] = height
                   /\ IsPrefix(f, b[3])
                   /\ (op = "init_display" /\ status = "returned") => f = b[3]
            /\ (op = "init_display" /\ status = "returned") =>
                   /\ Len(f) = 26
                   /\ f[17] = 129 /\ f[18] = 207
                   /\ f[24] = 166
                   /\ f[26] = 175
                   /\ power = "on"

C23_Witness ==
    /\ op = "init_display"
    /\ status = "returned"
    /\ Len(wire) = 110
    /\ wire[1].pin = "rst"
    /\ wire[1].lines["cs"] = 0
    /\ wire[1].lines["dc"] = 1
    /\ FirstBytes(wire)[18] = 207

\* C24 as claimed: no byte 0x8D is written to the bus in command mode.
C24_NoPumpByte ==
    \A i \in 1..Len(wire) :
        (IsWrite(wire[i]) /\ wire[i].lines["dc"] = 0) => wire[i].bytes # <<141>>

\* C24: the driver never sends 0x8D as a command: the only command-mode
\* byte 0x8D there can be is the level of contrast(141), written as the
\* second byte of that call, right after 0x81.
C24_PumpByteOnlyAsLevel ==
    LET w == Writes(wire)
    IN  \A i \in 1..Len(w) :
            (w[i].lines["dc"] = 0 /\ w[i].bytes = <<141>>) =>
                /\ op = "contrast"
                /\ arg[1] = 141
                /\ i = 2
                /\ w[1].bytes = <<129>>

C24_Witness ==
    /\ op = "contrast"
    /\ status = "returned"
    /\ arg[1] = 141
    /\ Writes(wire)[1].bytes = <<129>>
    /\ Writes(wire)[2].bytes = <<141>>
    /\ Writes(wire)[2].lines["dc"] = 0

\* Consecutive show() calls put the same bytes on the bus, and every data
\* write is the whole buffer.
C25_SameStream ==
    op = "show" =>
        LET a == Attempts(wire)
        IN  \A i \in 1..Len(a) :
                IsWrite(a[i]) =>
                    /\ \A j \in 1..Len(a) :
                           (IsWrite(a[j]) /\ PlaceInShow(a, j) = PlaceInShow(a, i)) =>
                               a[j].bytes = a[i].bytes
                    /\ a[i].lines["dc"] = 1 =>
                           /\ a[i].bytes = buffer
                           /\ Len(a[i].bytes) = width * pages

\* C25: show() only reads the pixel buffer: no step of a show(), returning
\* or failing, changes it, so show() calls that follow one another with no
\* drawing in between write the same bytes, and each of them transfers the
\* whole buffer of width*pages bytes.
C25_ShowReadsOnly ==
    /\ []C25_SameStream
    /\ [][op' = "show" => buffer' = buffer]_vars

C25_Witness ==
    /\ op = "show"
    /\ status = "returned"
    /\ Len(Attempts(wire)) = 14
    /\ \A i \in 1..14 : IsWrite(Attempts(wire)[i])
    /\ Attempts(wire)[7].bytes = buffer
    /\ Attempts(wire)[14].bytes = buffer
    /\ Len(buffer) = 1024
    /\ buffer[902] = 16

\* C26: a construction writes command bytes only: none of its bus writes is
\* made in data mode and none is the column-window command 0x21 or the
\* page-window command 0x22, although it ends with display-on 0xAF and the
\* panel lit; data-mode writes are made by show() alone.
C26_ConstructionCommandsOnly ==
    LET w == Writes(wire)
    IN  /\ op # "show" => \A i \in 1..Len(w) : w[i].lines["dc"] = 0
        /\ op = "construct" =>
               /\ \A i \in 1..Len(w) :
                      /\ Len(w[i].bytes) = 1
                      /\ w[i].bytes[1] \notin {33, 34}
               /\ status = "returned" =>
                      /\ w[Len(w)].bytes = <<175>>
                      /\ power = "on"

C26_Witness ==
    /\ op = "construct"
    /\ status = "returned"
    /\ power = "on"
    /\ Len(Writes(wire)) = 26
    /\ Writes(wire)[26].bytes = <<175>>
    /\ \A i \in 1..Len(buffer) : buffer[i] = 0
    /\ height = 64

\* C27: every value the driver passes to write_cmd is a byte, 0..255, for
\* both geometries and every contrast level: the window and multiplex
\* parameters are at most 127 and the level is clamped.  So bytes([cmd])
\* never fails, and the only ValueError there is comes from the geometry
\* check, before the construction drives any line.
C27_CommandValuesAreBytes ==
    /\ (Running /\ Ins.k = "wcmd") => Ins.v \in 0..255
    /\ phase = "ready" =>
           /\ width - 1 \in 0..127
           /\ height - 1 \in 0..127
           /\ pages - 1 \in 0..127
    /\ \A i \in 1..Len(wire) : IsWrite(wire[i]) =>
           \A j \in 1..Len(wire[i].bytes) : wire[i].bytes[j] \in 0..255
    /\ err = "ValueError" =>
           /\ op = "construct"
           /\ ~Supported(arg[1], arg[2])
           /\ wire = << >>

C27_Witness ==
    /\ op = "contrast"
    /\ status = "returned"
    /\ arg[1] = 300
    /\ Writes(wire)[2].bytes = <<255>>
    /\ height = 32

====
